---- MODULE Spec2Model ----
(***************************************************************************)
(* Model of pctrl/peer.py (class BGPPeer): the update translator           *)
(* (update), the best-path decision process (decision_process), the        *)
(* propagation engine (bgp_update_peers), the lock registry (get_lock)     *)
(* and the locked table accessors around the three-table RIB.              *)
(***************************************************************************)
EXTENDS Integers, Sequences, FiniteSets, TLC

\* ------------------------------------------------------------------ bounds
NumPrefixes == 2
NumNeighbors == 2
MaxPathLen == 2
NumPorts == 2
MaxBatch == 2
NumWorkers == 2

Prefixes == 1..NumPrefixes
Neighbors == 1..NumNeighbors
Ports == 1..NumPorts
Workers == 1..NumWorkers

\* ------------------------------------------------------------ route values
\* An AS-path of every length up to MaxPathLen: <<101>>, <<101, 102>>, ...
AsPaths == { [i \in 1..k |-> 100 + i] : k \in 1..MaxPathLen }

\* BGPRoute(prefix, neighbor, next_hop, origin, as_path, communities, med,
\* atomic_aggregate), reduced to the fields the peer reads and the one attribute
\* that ranks a route.
BGPRoute(prefix, neighbor, as_path) ==
    [prefix |-> prefix, neighbor |-> neighbor, as_path |-> as_path]

\* The routes of the model: prefix 1 is announced by every neighbor with every
\* AS-path, the other prefixes by neighbor 1 with the shortest AS-path only.
Announced(p, n, a) == p = 1 \/ (n = 1 /\ Len(a) = 1)

Routes ==
    { r \in { BGPRoute(p, n, a) : p \in Prefixes, n \in Neighbors, a \in AsPaths } :
        Announced(r.prefix, r.neighbor, r.as_path) }

\* Python's None, as a value of the same shape as a route.
None == [prefix |-> 0, neighbor |-> 0, as_path |-> << >>]

\* a > b in the Route total order: the shorter AS-path wins, then the lower
\* neighbor address.
RouteGt(a, b) ==
    \/ Len(a.as_path) < Len(b.as_path)
    \/ Len(a.as_path) = Len(b.as_path) /\ a.neighbor < b.neighbor

RouteLt(a, b) == RouteGt(b, a)

\* routes.sort(reverse=True); routes[0]
SortedFirst(routes) ==
    CHOOSE r \in routes : \A q \in routes : ~RouteGt(q, r)

\* ------------------------------------------------------------ the RIB store
EmptyInput == [k \in Prefixes \X Neighbors |-> None]
EmptyTable == [p \in Prefixes |-> None]
EmptyRib == [input |-> EmptyInput, local |-> EmptyTable, output |-> EmptyTable]

\* rib.add(table_name, bgp_route): upsert under the table's primary key.
RibAdd(t, table_name, r) ==
    IF table_name = "input"
    THEN [t EXCEPT !.input[<<r.prefix, r.neighbor>>] = r]
    ELSE [t EXCEPT ![table_name][r.prefix] = r]

\* rib.get('input', {prefix, neighbor}, False): the row or None.
RibGetInput(t, prefix, neighbor) == t.input[<<prefix, neighbor>>]

\* rib.get('input', {prefix}, True): every row of the prefix.
RibGetInputByPrefix(t, prefix) ==
    { t.input[<<prefix, n>>] : n \in Neighbors } \ {None}

\* rib.get('input', {neighbor}, True): every row of the neighbor.
RibGetInputByNeighbor(t, neighbor) ==
    { t.input[<<p, neighbor>>] : p \in Prefixes } \ {None}

\* rib.get(table_name, {prefix}, False) on local or output.
RibGet(t, table_name, prefix) == t[table_name][prefix]

\* rib.delete('input', {prefix, neighbor})
RibDeleteInput(t, prefix, neighbor) ==
    [t EXCEPT !.input[<<prefix, neighbor>>] = None]

\* rib.delete(table_name, {prefix}) on local or output.
RibDelete(t, table_name, prefix) == [t EXCEPT ![table_name][prefix] = None]

\* rib.delete(table_name, {}): every row of the table.
RibDeleteAll(t, table_name) ==
    IF table_name = "input"
    THEN [t EXCEPT !.input = EmptyInput]
    ELSE [t EXCEPT ![table_name] = EmptyTable]

\* delete_all_routes(table_name)
delete_all_routes(t, table_name) == RibDeleteAll(t, table_name)

\* ------------------------------------------------------------ change events
\* {'announce': x} / {'withdraw': x}.  obj says what x is: a BGPRoute, or the
\* module-level function announce_route, which has no attribute `prefix`.
Change(tag, obj, route) == [tag |-> tag, obj |-> obj, route |-> route]

\* What update() appends for an announced prefix (line 98): the payload is the
\* name announce_route, which resolves to the module-level function, not to the
\* local announced_route.
AnnounceChange(announced_route) == Change("announce", "function", None)

WithdrawChange(deleted_route) == Change("withdraw", "route", deleted_route)

\* A change as a caller holding the route builds it.
RouteChanges == { Change(tag, "route", r) : tag \in {"announce", "withdraw"}, r \in Routes }

\* Every enumeration of a finite set as a sequence (dict.keys() order).
Orders(S) ==
    { s \in [1..Cardinality(S) -> S] : \A i, j \in 1..Cardinality(S) : i # j => s[i] # s[j] }

\* ------------------------------------------------------- locked accessors
\* add_route / update_route: rib.add under the lock of bgp_route.prefix.
\* Reading bgp_route.prefix of None raises AttributeError before any write.
add_route(t, table_name, bgp_route) == RibAdd(t, table_name, bgp_route)

update_route(t, table_name, bgp_route) == RibAdd(t, table_name, bgp_route)

delete_route(t, table_name, prefix) == RibDelete(t, table_name, prefix)

\* ------------------------------------------------------------------ update
\* A raw neighbor event: route['neighbor'] with its ip, its optional state and
\* the update of its message (an announcement or a withdrawal of a set of
\* prefixes, with the attributes the announcement carries).
Event(neighbor, state, kind, as_path, prefixes) ==
    [neighbor |-> neighbor, state |-> state, kind |-> kind,
     as_path |-> as_path, prefixes |-> prefixes]

DownEvents == { Event(n, "down", "none", << >>, {}) : n \in Neighbors }

AnnounceEvents ==
    { ev \in { Event(n, "up", "announce", a, ps) :
                 n \in Neighbors, a \in AsPaths, ps \in (SUBSET Prefixes) \ {{}} } :
        \A p \in ev.prefixes : Announced(p, ev.neighbor, ev.as_path) }

WithdrawEvents ==
    { Event(n, "up", "withdraw", << >>, ps) :
        n \in Neighbors, ps \in (SUBSET Prefixes) \ {{}} }

Events == DownEvents \cup AnnounceEvents \cup WithdrawEvents

\* The members of S in the order they have in the sequence order.
InOrder(order, S) == SelectSeq(order, LAMBDA x : x \in S)

\* Lines 54-64: one withdraw change per input row of the neighbor, then the
\* three tables are emptied.
RECURSIVE DownWithdraws(_, _, _)
DownWithdraws(t, neighbor, keys) ==
    IF keys = << >> THEN << >>
    ELSE LET row == RibGetInput(t, Head(keys), neighbor)
             rest == DownWithdraws(t, neighbor, Tail(keys))
         IN  IF row # None THEN <<WithdrawChange(row)>> \o rest ELSE rest

\* UpdateDown, were it to drop the rows of the neighbor that went down only.
UpdateDown_OnlyNeighbor(st, route, order) ==
    IF route.state = "down"
    THEN [rib |-> [st.rib EXCEPT !.input =
                      [k \in Prefixes \X Neighbors |->
                          IF k[2] = route.neighbor THEN None ELSE st.rib.input[k]]],
          route_list |-> st.route_list \o DownWithdraws(st.rib, route.neighbor, order)]
    ELSE st

UpdateDown(st, route, order) ==
    IF route.state = "down"
    THEN [rib |-> delete_all_routes(
                      delete_all_routes(
                          delete_all_routes(st.rib, "input"), "local"), "output"),
          route_list |-> st.route_list \o DownWithdraws(st.rib, route.neighbor, order)]
    ELSE st

\* Lines 83-98: each announced prefix is written to input and one change is
\* appended.
RECURSIVE UpdateAnnounce(_, _, _)
UpdateAnnounce(st, route, keys) ==
    IF keys = << >> THEN st
    ELSE LET announced_route == BGPRoute(Head(keys), route.neighbor, route.as_path)
         IN  UpdateAnnounce(
                 [rib |-> add_route(st.rib, "input", announced_route),
                  route_list |-> Append(st.route_list, AnnounceChange(announced_route))],
                 route, Tail(keys))

\* UpdateWithdraw, were it to skip the test of line 105.
RECURSIVE UpdateWithdraw_NoCheck(_, _, _)
UpdateWithdraw_NoCheck(st, route, keys) ==
    IF keys = << >> THEN st
    ELSE LET prefix == Head(keys)
             deleted_route == RibGetInput(st.rib, prefix, route.neighbor)
         IN  UpdateWithdraw_NoCheck(
                 [rib |-> RibDeleteInput(st.rib, prefix, route.neighbor),
                  route_list |-> Append(st.route_list, WithdrawChange(deleted_route))],
                 route, Tail(keys))

\* Lines 100-107: each withdrawn prefix with an input row loses it and gets one
\* withdraw change carrying the deleted row.
RECURSIVE UpdateWithdraw(_, _, _)
UpdateWithdraw(st, route, keys) ==
    IF keys = << >> THEN st
    ELSE LET prefix == Head(keys)
             deleted_route == RibGetInput(st.rib, prefix, route.neighbor)
         IN  UpdateWithdraw(
                 IF deleted_route # None
                 THEN [rib |-> RibDeleteInput(st.rib, prefix, route.neighbor),
                       route_list |-> Append(st.route_list, WithdrawChange(deleted_route))]
                 ELSE st,
                 route, Tail(keys))

\* update(route): the tables afterwards and the returned route_list.  order is
\* the order in which the store lists rows and the dicts list their keys.
update(t, route, order) ==
    LET st0 == [rib |-> t, route_list |-> << >>]
        st1 == UpdateDown(st0, route, order)
        keys == InOrder(order, route.prefixes)
    IN  IF route.kind = "announce" THEN UpdateAnnounce(st1, route, keys)
        ELSE IF route.kind = "withdraw" THEN UpdateWithdraw(st1, route, keys)
        ELSE st1

\* DecideAnnounce, were it to install every announced route whatever its rank.
DecideAnnounce_AlwaysInstall(t, announce_route) ==
    update_route(t, "local", announce_route)

\* -------------------------------------------------------- decision_process
\* Lines 113-155.
DecideAnnounce(t, announce_route) ==
    LET prefix == announce_route.prefix
        current_best_route == RibGet(t, "local", prefix)
        new_best_route ==
            IF current_best_route # None
            THEN IF RouteGt(announce_route, current_best_route)
                 THEN announce_route
                 ELSE IF /\ RouteLt(announce_route, current_best_route)
                         /\ announce_route.neighbor = current_best_route.neighbor
                      THEN SortedFirst(RibGetInputByPrefix(t, prefix) \cup {announce_route})
                      ELSE None
            ELSE announce_route
    IN  IF new_best_route # None THEN update_route(t, "local", new_best_route) ELSE t

\* DecideWithdraw, were it to delete the best route without the re-scan of
\* lines 167-171.
DecideWithdraw_NoReelect(t, deleted_route) ==
    LET prefix == deleted_route.prefix
        current_best_route == RibGet(t, "local", prefix)
    IN  IF current_best_route # None /\ deleted_route.neighbor = current_best_route.neighbor
        THEN delete_route(t, "local", prefix)
        ELSE t

\* DecideWithdraw, were it to re-elect without the neighbor test of line 165.
DecideWithdraw_AnyNeighbor(t, deleted_route) ==
    LET prefix == deleted_route.prefix
        current_best_route == RibGet(t, "local", prefix)
    IN  IF current_best_route # None
        THEN LET t1 == delete_route(t, "local", prefix)
                 routes == RibGetInputByPrefix(t1, prefix)
             IN  IF routes # {} THEN update_route(t1, "local", SortedFirst(routes)) ELSE t1
        ELSE t

\* Lines 157-175.
DecideWithdraw(t, deleted_route) ==
    LET prefix == deleted_route.prefix
        current_best_route == RibGet(t, "local", prefix)
    IN  IF current_best_route # None /\ deleted_route.neighbor = current_best_route.neighbor
        THEN LET t1 == delete_route(t, "local", prefix)
                 routes == RibGetInputByPrefix(t1, prefix)
             IN  IF routes # {} THEN update_route(t1, "local", SortedFirst(routes)) ELSE t1
        ELSE t

\* decision_process(update): the tables afterwards, and whether it raised
\* (announce_route.prefix of a function object, line 131).
decision_process(t, upd) ==
    IF upd.obj # "route" THEN [rib |-> t, raised |-> TRUE]
    ELSE IF upd.tag = "announce"
         THEN [rib |-> DecideAnnounce(t, upd.route), raised |-> FALSE]
         ELSE [rib |-> DecideWithdraw(t, upd.route), raised |-> FALSE]

\* ------------------------------------------------------- bgp_update_peers
\* self.ports, the ports the peer was constructed with.
SelfPorts == [i \in 1..NumPorts |-> i]

\* The ports argument of a propagation call: a leading part of the port list.
PortLists == { [i \in 1..k |-> i] : k \in 1..NumPorts }

\* prefix_2_FEC[prefix]: the forwarding class of a prefix and its VNH.
prefix_2_FEC(prefix) == [id |-> prefix, vnh |-> 100 + prefix]

\* prefix_2_VNH_nrfp[prefix]
prefix_2_VNH_nrfp(prefix) == 200 + prefix

VNHs == { prefix_2_FEC(p).vnh : p \in Prefixes }

\* announce_route(neighbor, prefix, next_hop, as_path): the command, by its parts.
announce_route(neighbor, prefix, next_hop, as_path) ==
    [cmd |-> "announce", neighbor |-> neighbor, prefix |-> prefix,
     next_hop |-> next_hop, as_path |-> as_path]

\* withdraw_route(neighbor, prefix, next_hop)
withdraw_route(neighbor, prefix, next_hop) ==
    [cmd |-> "withdraw", neighbor |-> neighbor, prefix |-> prefix,
     next_hop |-> next_hop, as_path |-> << >>]

\* for port in ports: announcements.append(announce_route(...))
AnnouncePorts(ports, prefix, vnh, as_path) ==
    [i \in 1..Len(ports) |-> announce_route(ports[i], prefix, vnh, as_path)]

WithdrawPorts(ports, prefix, next_hop) ==
    [i \in 1..Len(ports) |-> withdraw_route(ports[i], prefix, next_hop)]

\* Lines 201-209 and 218-226: output refreshed, the FEC noted when its VNH has no
\* binding, one announcement per port.
PropagateBest(st, prefix, best_route, VNH_2_vmac, ports) ==
    LET vnh == prefix_2_FEC(prefix).vnh
    IN  [st EXCEPT
            !.rib = update_route(st.rib, "output", best_route),
            !.new_FECs = IF vnh \notin VNH_2_vmac
                         THEN Append(st.new_FECs, prefix_2_FEC(prefix))
                         ELSE st.new_FECs,
            !.announcements = st.announcements \o
                              AnnouncePorts(ports, prefix, vnh, best_route.as_path)]

\* One pass of the loop of lines 181-237 over one change.
PropagateOne(st, upd, VNH_2_vmac, ports) ==
    IF upd.obj # "route"
    THEN [st EXCEPT !.raised = TRUE]                        \* line 183
    ELSE LET prefix == upd.route.prefix
             prev_route == RibGet(st.rib, "output", prefix)
             best_route == RibGet(st.rib, "local", prefix)
         IN  IF upd.tag = "announce"
             THEN IF best_route = None
                  THEN [st EXCEPT !.raised = TRUE]          \* line 201 -> 264
                  ELSE PropagateBest(st, prefix, best_route, VNH_2_vmac, ports)
             ELSE IF best_route # None
                  THEN PropagateBest(st, prefix, best_route, VNH_2_vmac, ports)
                  ELSE IF prev_route # None
                       THEN [st EXCEPT
                               !.rib = delete_route(st.rib, "output", prefix),
                               !.announcements = st.announcements \o
                                   WithdrawPorts(SelfPorts, prefix, prefix_2_VNH_nrfp(prefix))]
                       ELSE st

RECURSIVE PropagateLoop(_, _, _, _)
PropagateLoop(st, updates, VNH_2_vmac, ports) ==
    IF updates = << >> \/ st.raised THEN st
    ELSE PropagateLoop(PropagateOne(st, Head(updates), VNH_2_vmac, ports),
                       Tail(updates), VNH_2_vmac, ports)

\* bgp_update_peers(updates, ..., VNH_2_vmac, ports): the tables afterwards,
\* whether the call raised, and what it returned (nothing when it raised).
bgp_update_peers(t, updates, VNH_2_vmac, ports) ==
    LET st == PropagateLoop([rib |-> t, raised |-> FALSE,
                             new_FECs |-> << >>, announcements |-> << >>],
                            updates, VNH_2_vmac, ports)
    IN  IF st.raised
        THEN [st EXCEPT !.new_FECs = << >>, !.announcements = << >>]
        ELSE st

\* ---------------------------------------------------- process_notification
\* Lines 246-250.
process_notification(t, notification) ==
    IF notification = "shutdown"
    THEN delete_all_routes(delete_all_routes(delete_all_routes(t, "input"), "local"), "output")
    ELSE t

\* ------------------------------------------------------------------- state
VARIABLES
    rib,          \* self.rib: the input, local and output tables
    route_list,   \* the changes update() returned, while the caller works on them
    decided,      \* how many of them the caller has passed to decision_process
    annOnly,      \* so far: only announcements, each pair (prefix, neighbor) once
    last,         \* the call that ran last: what it was and how it ended
    th,           \* per worker thread: where it is in the method it runs
    round,        \* the tables when the threads now at work began, and their tasks
    wk,           \* per worker: where it is in the accessor it called
    lock_items    \* self.lock_items: lock name -> lock object

vars == <<rib, route_list, decided, annOnly, last, th, round, wk, lock_items>>

\* What the single caller of the sequential specifications works with.
seqVars == <<route_list, decided, annOnly, last>>

\* What the worker threads of the concurrent specification work with.
concVars == <<th, round>>

\* What the accessor calls of the locking specification work with.
lockVars == <<wk, lock_items>>

\* op: the method; src: whose change list it worked on ("update": the list
\* update() returned, "call": the caller's own); tag: the kind of event or change;
\* raised: it ended in an exception; had, hit, n: what it found, per method.
Call(op, src, tag, raised, had, hit, n) ==
    [op |-> op, src |-> src, tag |-> tag, raised |-> raised,
     had |-> had, hit |-> hit, n |-> n]

\* A change and an event that stand for "none".
NoChange == Change("none", "none", None)

NoEvent == Event(0, "up", "none", << >>, {})

\* What a worker thread is given to run: update() on an event followed by
\* decision_process on every change returned, or decision_process on a change
\* of the caller's, or process_notification.
Task(kind, ev, upd) == [kind |-> kind, ev |-> ev, upd |-> upd]

NoTask == Task("none", NoEvent, NoChange)

\* A thread: pc is the table access it makes next; keys are the prefixes
\* update() has still to go through, todo the changes decision_process has still
\* to be called with, upd the change it is working on, found the route it read
\* last or is about to write.  In bgp_update_peers, prev is prev_route, found
\* is best_route and out is what the call has to return.
NoOut == [raised |-> FALSE, new_FECs |-> << >>, announcements |-> << >>]

Thread(pc, task, keys, todo, upd, found) ==
    [pc |-> pc, task |-> task, keys |-> keys, todo |-> todo, upd |-> upd, found |-> found,
     prev |-> None, out |-> NoOut]

\* A thread inside bgp_update_peers.
PropThread(pc, task, prev, found, out) ==
    [Thread(pc, task, << >>, << >>, task.upd, found) EXCEPT !.prev = prev, !.out = out]

IdleThread == Thread("idle", NoTask, << >>, << >>, NoChange, None)

NoRound == [start |-> EmptyRib, task |-> [w \in Workers |-> NoTask]]

\* The key of self.lock_items for an operation with no prefix: 'global'.  The
\* other keys are the prefixes.
GlobalLock == 0

LockNames == Prefixes \cup {GlobalLock}

\* A lock object: an RLock() is named after the worker that made it and the
\* name it made it for.  NoLock: the name is not in lock_items.
NoLock == <<0, 0>>

RLock(w, name) == <<w, name>>

\* A call of an accessor: its table, its keys or its route.
Access(op, table_name, prefix, neighbor, bgp_route) ==
    [op |-> op, table_name |-> table_name, prefix |-> prefix,
     neighbor |-> neighbor, bgp_route |-> bgp_route]

NoAccess == Access("none", "", 0, 0, None)

\* A worker inside an accessor: pc is its next step, lk the lock object
\* get_lock returned to it.
Worker(pc, call, lk) == [pc |-> pc, call |-> call, lk |-> lk]

IdleWorker == Worker("idle", NoAccess, NoLock)

Init ==
    /\ rib = EmptyRib
    /\ route_list = << >>
    /\ decided = 0
    /\ annOnly = TRUE
    /\ last = Call("init", "", "", FALSE, FALSE, FALSE, 0)
    /\ th = [w \in Workers |-> IdleThread]
    /\ round = NoRound
    /\ wk = [w \in Workers |-> IdleWorker]
    /\ lock_items = [name \in LockNames |-> NoLock]

\* No caller is between update() and the end of its propagation pass.
Idle == route_list = << >>

\* A first announcement of each of its pairs (prefix, neighbor).
FreshAnnounce(t, ev) ==
    /\ ev.kind = "announce"
    /\ \A p \in ev.prefixes : RibGetInput(t, p, ev.neighbor) = None

\* What a down event finds beside the rows of its neighbor.
OthersPresent(t, neighbor) ==
    \/ \E p \in Prefixes, n \in Neighbors \ {neighbor} : RibGetInput(t, p, n) # None
    \/ \E p \in Prefixes : t.local[p] # None \/ t.output[p] # None

\* The caller hands one raw event to update() and keeps the returned list.
Update ==
    /\ Idle
    /\ \E ev \in Events, order \in Orders(Prefixes) :
         LET u == update(rib, ev, order)
         IN  /\ rib' = u.rib
             /\ route_list' = u.route_list
             /\ decided' = 0
             /\ annOnly' = (annOnly /\ FreshAnnounce(rib, ev))
             /\ last' = Call("update", "call",
                             IF ev.state = "down" THEN "down" ELSE ev.kind,
                             FALSE, rib # EmptyRib,
                             ev.state = "down" /\ OthersPresent(rib, ev.neighbor),
                             Len(u.route_list))
    /\ UNCHANGED <<concVars, lockVars>>

\* Whether decision_process finds a best route for the prefix of the change.
HasBest(t, upd) == upd.obj = "route" /\ t.local[upd.route.prefix] # None

\* Whether it finds the change's neighbor to be the best route's.
HitsBest(t, upd) ==
    /\ HasBest(t, upd)
    /\ t.local[upd.route.prefix].neighbor = upd.route.neighbor

\* How many input rows the prefix of the change has.
RowsOf(t, upd) ==
    IF upd.obj = "route" THEN Cardinality(RibGetInputByPrefix(t, upd.route.prefix)) ELSE 0

\* The caller passes the next change of the returned list to decision_process.
\* A change that makes it raise is left behind and the next one is taken.
Decide ==
    /\ decided < Len(route_list)
    /\ LET upd == route_list[decided + 1]
           d == decision_process(rib, upd)
       IN  /\ rib' = d.rib
           /\ decided' = decided + 1
           /\ last' = Call("decision_process", "update", upd.tag, d.raised,
                           HasBest(rib, upd), HitsBest(rib, upd), RowsOf(rib, upd))
    /\ UNCHANGED <<route_list, annOnly, concVars, lockVars>>

\* The bindings a propagation call is given: none, or one for every VNH.
VmacChoices == { {}, VNHs }

\* Whether some change of the batch is an announcement of a route whose prefix
\* has no best route.
AnnounceWithoutBest(t, updates) ==
    \E i \in 1..Len(updates) :
        /\ updates[i].tag = "announce"
        /\ updates[i].obj = "route"
        /\ t.local[updates[i].route.prefix] = None

\* Whether some change of the batch has a best route for its prefix.
SomeWithBest(t, updates) ==
    \E i \in 1..Len(updates) : HasBest(t, updates[i])

\* The caller passes the whole returned list to bgp_update_peers once every
\* change has been through decision_process.
Propagate ==
    /\ route_list # << >>
    /\ decided = Len(route_list)
    /\ \E VNH_2_vmac \in VmacChoices, ports \in PortLists :
         LET b == bgp_update_peers(rib, route_list, VNH_2_vmac, ports)
         IN  /\ rib' = b.rib
             /\ last' = Call("bgp_update_peers", "update", "", b.raised,
                             SomeWithBest(rib, route_list),
                             AnnounceWithoutBest(rib, route_list), Len(b.announcements))
    /\ route_list' = << >>
    /\ decided' = 0
    /\ UNCHANGED <<annOnly, concVars, lockVars>>

\* decision_process called with a change that carries a route.
DecideCall ==
    /\ Idle
    /\ \E upd \in RouteChanges :
         LET d == decision_process(rib, upd)
         IN  /\ rib' = d.rib
             /\ last' = Call("decision_process", "call", upd.tag, d.raised,
                             HasBest(rib, upd), HitsBest(rib, upd), RowsOf(rib, upd))
    /\ annOnly' = FALSE
    /\ UNCHANGED <<route_list, decided, concVars, lockVars>>

\* The changes of a batch handed straight to bgp_update_peers: it reads the tag
\* and the payload's prefix only (lines 182-185).
BatchChanges ==
    { Change(tag, "route", BGPRoute(p, 1, <<101>>)) :
        tag \in {"announce", "withdraw"}, p \in Prefixes }
    \cup { AnnounceChange(None) }

Batches == UNION { [1..k -> BatchChanges] : k \in 1..MaxBatch }

\* bgp_update_peers called with a batch of the caller's.
PropagateCall ==
    /\ Idle
    /\ \E updates \in Batches, VNH_2_vmac \in VmacChoices, ports \in PortLists :
         LET b == bgp_update_peers(rib, updates, VNH_2_vmac, ports)
         IN  /\ rib' = b.rib
             /\ last' = Call("bgp_update_peers", "call", "", b.raised,
                             SomeWithBest(rib, updates),
                             AnnounceWithoutBest(rib, updates), Len(b.announcements))
    /\ annOnly' = FALSE
    /\ UNCHANGED <<route_list, decided, concVars, lockVars>>

\* process_notification with a shutdown.
Notify ==
    /\ Idle
    /\ rib' = process_notification(rib, "shutdown")
    /\ last' = Call("process_notification", "call", "shutdown", FALSE, rib # EmptyRib, FALSE, 0)
    /\ annOnly' = FALSE
    /\ UNCHANGED <<route_list, decided, concVars, lockVars>>

\* The translator, the decision process and the caller's pass over one event.
Next == Update \/ Decide \/ Propagate \/ DecideCall \/ Notify

Spec == Init /\ [][Next]_vars

\* The propagation engine over the local and output tables.
NextProp == DecideCall \/ PropagateCall \/ Notify

SpecProp == Init /\ [][NextProp]_vars

\* ------------------------------------------------------- worker threads
\* The caller's loop over the returned changes: the thread takes the next change
\* that decision_process can read (a change whose payload has no prefix makes it
\* raise at line 131 and is left behind), or is done.
RECURSIVE NextDecision(_, _)
NextDecision(t, todo) ==
    IF todo = << >> THEN Thread("done", t.task, << >>, << >>, NoChange, None)
    ELSE IF Head(todo).obj # "route" THEN NextDecision(t, Tail(todo))
         ELSE Thread("d_local", t.task, << >>, Tail(todo), Head(todo), None)

\* update()'s loop over the keys of the announcement or withdrawal: the thread
\* goes to the next key, or on to the decisions.
NextKey(t, keys, todo) ==
    IF keys = << >> THEN NextDecision(t, todo)
    ELSE Thread(IF t.task.ev.kind = "announce" THEN "u_add" ELSE "u_get",
                t.task, keys, todo, NoChange, None)

\* The events the threads are given: announcements and withdrawals of prefix 1
\* and neighbor-down events.
ThreadEvents ==
    { ev \in Events : ev.state = "down" \/ ev.prefixes = {1} }

ThreadTasks ==
    { Task("event", ev, NoChange) : ev \in ThreadEvents }
    \cup { Task("decide", NoEvent, upd) : upd \in { c \in RouteChanges : c.route.prefix = 1 } }
    \cup { Task("notify", NoEvent, NoChange) }
    \cup { Task("propagate", NoEvent, upd) :
              upd \in { c \in BatchChanges : c.obj = "route" => c.route.prefix = 1 } }

\* Nobody is at work.
AllIdle == \A w \in Workers : th[w].pc = "idle"

\* A thread is given a task; the tables at that moment are noted when it is the
\* first thread at work.
Start(w) ==
    /\ th[w].pc = "idle"
    /\ \E task \in ThreadTasks, order \in Orders(Prefixes) :
         /\ th' = [th EXCEPT ![w] =
                IF task.kind = "notify" THEN Thread("bulk_input", task, << >>, << >>, NoChange, None)
                ELSE IF task.kind = "decide" THEN NextDecision([task |-> task], <<task.upd>>)
                ELSE IF task.kind = "propagate"
                     THEN IF task.upd.obj # "route"
                          THEN PropThread("done", task, None, None, [NoOut EXCEPT !.raised = TRUE])
                          ELSE PropThread("p_prev", task, None, None, NoOut)
                ELSE IF task.ev.state = "down"
                     THEN Thread("g_rows", task, order, << >>, NoChange, None)
                     ELSE NextKey([task |-> task], InOrder(order, task.ev.prefixes), << >>)]
         /\ round' = [start |-> IF AllIdle THEN rib ELSE round.start,
                      task |-> [round.task EXCEPT ![w] = task]]
    /\ UNCHANGED <<rib, seqVars, lockVars>>

\* Line 57: get_routes('input', True, neighbor=neighbor).
GRows(w) ==
    /\ th[w].pc = "g_rows"
    /\ th' = [th EXCEPT ![w] =
                Thread("bulk_input", @.task, << >>,
                       DownWithdraws(rib, @.task.ev.neighbor, @.keys), NoChange, None)]
    /\ UNCHANGED <<rib, round, seqVars, lockVars>>

\* Lines 62 and 248: delete_all_routes('input').
BulkInput(w) ==
    /\ th[w].pc = "bulk_input"
    /\ rib' = delete_all_routes(rib, "input")
    /\ th' = [th EXCEPT ![w].pc = "bulk_local"]
    /\ UNCHANGED <<round, seqVars, lockVars>>

\* Lines 63 and 249: delete_all_routes('local').
BulkLocal(w) ==
    /\ th[w].pc = "bulk_local"
    /\ rib' = delete_all_routes(rib, "local")
    /\ th' = [th EXCEPT ![w].pc = "bulk_output"]
    /\ UNCHANGED <<round, seqVars, lockVars>>

\* Lines 64 and 250: delete_all_routes('output'); update() goes on to return
\* its list, process_notification is over.
BulkOutput(w) ==
    /\ th[w].pc = "bulk_output"
    /\ rib' = delete_all_routes(rib, "output")
    /\ th' = [th EXCEPT ![w] = NextDecision(@, @.todo)]
    /\ UNCHANGED <<round, seqVars, lockVars>>

\* Line 96: add_route('input', announced_route), and line 98.
UAdd(w) ==
    /\ th[w].pc = "u_add"
    /\ LET t == th[w]
           announced_route == BGPRoute(Head(t.keys), t.task.ev.neighbor, t.task.ev.as_path)
       IN  /\ rib' = add_route(rib, "input", announced_route)
           /\ th' = [th EXCEPT ![w] =
                       NextKey(t, Tail(t.keys),
                               Append(t.todo, AnnounceChange(announced_route)))]
    /\ UNCHANGED <<round, seqVars, lockVars>>

\* Line 104: get_routes('input', False, prefix=prefix, neighbor=neighbor).
UGet(w) ==
    /\ th[w].pc = "u_get"
    /\ LET t == th[w]
           deleted_route == RibGetInput(rib, Head(t.keys), t.task.ev.neighbor)
       IN  th' = [th EXCEPT ![w] =
                    IF deleted_route # None
                    THEN Thread("u_del", t.task, t.keys, t.todo, NoChange, deleted_route)
                    ELSE NextKey(t, Tail(t.keys), t.todo)]
    /\ UNCHANGED <<rib, round, seqVars, lockVars>>

\* Line 106: delete_route('input', prefix=prefix, neighbor=neighbor), and line 107.
UDel(w) ==
    /\ th[w].pc = "u_del"
    /\ LET t == th[w]
       IN  /\ rib' = RibDeleteInput(rib, Head(t.keys), t.task.ev.neighbor)
           /\ th' = [th EXCEPT ![w] =
                       NextKey(t, Tail(t.keys), Append(t.todo, WithdrawChange(t.found)))]
    /\ UNCHANGED <<round, seqVars, lockVars>>

\* Lines 133 and 163: get_routes('local', False, prefix=prefix), and the tests
\* that follow it.
DLocal(w) ==
    /\ th[w].pc = "d_local"
    /\ LET t == th[w]
           r == t.upd.route
           current_best_route == RibGet(rib, "local", r.prefix)
           write(new) == Thread("d_write", t.task, << >>, t.todo, t.upd, new)
           goto(pc) == Thread(pc, t.task, << >>, t.todo, t.upd, None)
       IN  th' = [th EXCEPT ![w] =
                    IF t.upd.tag = "announce"
                    THEN IF current_best_route = None THEN write(r)
                         ELSE IF RouteGt(r, current_best_route) THEN write(r)
                         ELSE IF /\ RouteLt(r, current_best_route)
                                 /\ r.neighbor = current_best_route.neighbor
                              THEN goto("d_input")
                              ELSE NextDecision(t, t.todo)
                    ELSE IF /\ current_best_route # None
                            /\ r.neighbor = current_best_route.neighbor
                         THEN goto("d_delete")
                         ELSE NextDecision(t, t.todo)]
    /\ UNCHANGED <<rib, round, seqVars, lockVars>>

\* Line 166: delete_route('local', prefix=prefix).
DDelete(w) ==
    /\ th[w].pc = "d_delete"
    /\ rib' = delete_route(rib, "local", th[w].upd.route.prefix)
    /\ th' = [th EXCEPT ![w].pc = "d_input"]
    /\ UNCHANGED <<round, seqVars, lockVars>>

\* Lines 144 and 167: get_routes('input', True, prefix=prefix), and the sort.
DInput(w) ==
    /\ th[w].pc = "d_input"
    /\ LET t == th[w]
           r == t.upd.route
           routes == RibGetInputByPrefix(rib, r.prefix)
           write(new) == Thread("d_write", t.task, << >>, t.todo, t.upd, new)
       IN  th' = [th EXCEPT ![w] =
                    IF t.upd.tag = "announce" THEN write(SortedFirst(routes \cup {r}))
                    ELSE IF routes # {} THEN write(SortedFirst(routes))
                    ELSE NextDecision(t, t.todo)]
    /\ UNCHANGED <<rib, round, seqVars, lockVars>>

\* Lines 155 and 171: update_route('local', ...).
DWrite(w) ==
    /\ th[w].pc = "d_write"
    /\ rib' = update_route(rib, "local", th[w].found)
    /\ th' = [th EXCEPT ![w] = NextDecision(@, @.todo)]
    /\ UNCHANGED <<round, seqVars, lockVars>>

\* The arguments of the propagation calls of the threads beside the batch (one
\* change): no binding for any VNH, and the ports of the peer.
ThreadVmac == {}

ThreadPorts == SelfPorts

\* Line 187: prev_route = get_routes('output', False, prefix=prefix).
PPrev(w) ==
    /\ th[w].pc = "p_prev"
    /\ th' = [th EXCEPT ![w] =
                PropThread("p_local", @.task,
                           RibGet(rib, "output", @.upd.route.prefix), None, NoOut)]
    /\ UNCHANGED <<rib, round, seqVars, lockVars>>

\* What follows the reads of local (lines 197-237) up to the next table access:
\* with a best route the write of output; for an announce change without one
\* the call of update_route(None), which raises at line 264 before it takes a
\* lock; for a withdraw change without one the delete of output when
\* prev_route was there.
AfterReads(t, best_route) ==
    IF best_route # None THEN PropThread("p_out", t.task, t.prev, best_route, NoOut)
    ELSE IF t.upd.tag = "announce"
         THEN PropThread("done", t.task, t.prev, None, [NoOut EXCEPT !.raised = TRUE])
         ELSE IF t.prev # None THEN PropThread("p_delete", t.task, t.prev, None, NoOut)
              ELSE PropThread("done", t.task, t.prev, None, NoOut)

\* Line 189: best_route = get_routes('local', False, prefix=prefix); without a
\* best route the thread sleeps and reads again.
PLocal(w) ==
    /\ th[w].pc = "p_local"
    /\ LET t == th[w]
           best_route == RibGet(rib, "local", t.upd.route.prefix)
       IN  th' = [th EXCEPT ![w] =
                    IF best_route = None
                    THEN PropThread("p_retry", t.task, t.prev, None, NoOut)
                    ELSE AfterReads(t, best_route)]
    /\ UNCHANGED <<rib, round, seqVars, lockVars>>

\* PRetry, were it to take the best of the input rows when local has none.
PRetry_FromInput(w) ==
    /\ th[w].pc = "p_retry"
    /\ LET t == th[w]
           routes == RibGetInputByPrefix(rib, t.upd.route.prefix)
           best_route == IF RibGet(rib, "local", t.upd.route.prefix) = None /\ routes # {}
                         THEN SortedFirst(routes)
                         ELSE RibGet(rib, "local", t.upd.route.prefix)
       IN  th' = [th EXCEPT ![w] = AfterReads(t, best_route)]
    /\ UNCHANGED <<rib, round, seqVars, lockVars>>

\* Line 193, after the sleep of line 192: the second and last read of local.
PRetry(w) ==
    /\ th[w].pc = "p_retry"
    /\ LET t == th[w]
           best_route == RibGet(rib, "local", t.upd.route.prefix)
       IN  th' = [th EXCEPT ![w] = AfterReads(t, best_route)]
    /\ UNCHANGED <<rib, round, seqVars, lockVars>>

\* Lines 201-209 and 218-226: update_route('output', best_route), the FEC and
\* the announce actions.
POut(w) ==
    /\ th[w].pc = "p_out"
    /\ LET t == th[w]
           st == PropagateBest([rib |-> rib, raised |-> FALSE,
                                new_FECs |-> << >>, announcements |-> << >>],
                               t.upd.route.prefix, t.found, ThreadVmac, ThreadPorts)
       IN  /\ rib' = st.rib
           /\ th' = [th EXCEPT ![w] =
                       PropThread("done", t.task, t.prev, t.found,
                                  [raised |-> FALSE, new_FECs |-> st.new_FECs,
                                   announcements |-> st.announcements])]
    /\ UNCHANGED <<round, seqVars, lockVars>>

\* Lines 232-237: delete_route('output', prefix=prefix) and the withdraw
\* actions, one per port of the peer.
PDelete(w) ==
    /\ th[w].pc = "p_delete"
    /\ LET t == th[w]
           prefix == t.upd.route.prefix
       IN  /\ rib' = delete_route(rib, "output", prefix)
           /\ th' = [th EXCEPT ![w] =
                       PropThread("done", t.task, t.prev, None,
                                  [NoOut EXCEPT !.announcements =
                                      WithdrawPorts(SelfPorts, prefix,
                                                    prefix_2_VNH_nrfp(prefix))])]
    /\ UNCHANGED <<round, seqVars, lockVars>>

\* Every thread that was given a task has finished it.
RoundOver ==
    /\ \E w \in Workers : th[w].pc = "done"
    /\ \A w \in Workers : th[w].pc \in {"idle", "done"}

\* The finished threads are free for new tasks.
EndRound ==
    /\ RoundOver
    /\ th' = [w \in Workers |-> IdleThread]
    /\ round' = NoRound
    /\ UNCHANGED <<rib, seqVars, lockVars>>

\* update(), decision_process, bgp_update_peers and process_notification run by
\* threads, one accessor call at a time.
NextConc ==
    \/ \E w \in Workers :
         \/ Start(w)
         \/ GRows(w) \/ BulkInput(w) \/ BulkLocal(w) \/ BulkOutput(w)
         \/ UAdd(w) \/ UGet(w) \/ UDel(w)
         \/ DLocal(w) \/ DDelete(w) \/ DInput(w) \/ DWrite(w)
         \/ PPrev(w) \/ PLocal(w) \/ PRetry(w) \/ POut(w) \/ PDelete(w)
    \/ EndRound

SpecConc == Init /\ [][NextConc]_vars

\* --------------------------------------------------- accessors and locks
\* The route the accessor calls are made with.
LockRoute == BGPRoute(1, 1, <<101>>)

Tables == {"input", "local", "output"}

\* The accessor calls of update(), decision_process, bgp_update_peers and
\* process_notification, for LockRoute.
Accesses ==
    { Access("add_route", "input", 0, 0, LockRoute) }
    \cup { Access("update_route", tn, 0, 0, LockRoute) : tn \in {"local", "output"} }
    \cup { Access("get_routes", "input", 0, 1, None),
           Access("get_routes", "input", 1, 1, None),
           Access("get_routes", "input", 1, 0, None),
           Access("delete_route", "input", 1, 1, None) }
    \cup { Access("get_routes", tn, 1, 0, None) : tn \in {"local", "output"} }
    \cup { Access("delete_route", tn, 1, 0, None) : tn \in {"local", "output"} }
    \cup { Access("delete_all_routes", tn, 0, 0, None) : tn \in Tables }

\* The lock name the accessor passes to get_lock (lines 253, 259, 264, 269).
LockOf(call) ==
    IF call.op \in {"add_route", "update_route"} THEN call.bgp_route.prefix
    ELSE IF call.prefix # 0 THEN call.prefix
    ELSE GlobalLock

\* What the accessor does to the tables (lines 254, 261, 265, 271, 276).
TableOp(t, call) ==
    IF call.op = "add_route" THEN RibAdd(t, call.table_name, call.bgp_route)
    ELSE IF call.op = "update_route" THEN RibAdd(t, call.table_name, call.bgp_route)
    ELSE IF call.op = "delete_route"
         THEN IF call.table_name = "input"
              THEN RibDeleteInput(t, call.prefix, call.neighbor)
              ELSE RibDelete(t, call.table_name, call.prefix)
    ELSE IF call.op = "delete_all_routes" THEN RibDeleteAll(t, call.table_name)
    ELSE t

\* The accessor ends with self.rib.commit() (lines 255, 272, 277).
Commits(call) == call.op \in {"add_route", "delete_route", "delete_all_routes"}

\* A worker calls an accessor.  delete_all_routes goes straight to the table;
\* the others call get_lock first.
CallAccessor(w) ==
    /\ wk[w].pc = "idle"
    /\ \E call \in Accesses :
         wk' = [wk EXCEPT ![w] =
                  Worker(IF call.op = "delete_all_routes" THEN "table" ELSE "check",
                         call, NoLock)]
    /\ UNCHANGED <<rib, lock_items, seqVars, concVars>>

\* Line 242: if lock not in self.lock_items.
GetLockCheck(w) ==
    /\ wk[w].pc = "check"
    /\ wk' = [wk EXCEPT ![w].pc =
                IF lock_items[LockOf(wk[w].call)] = NoLock THEN "create" ELSE "fetch"]
    /\ UNCHANGED <<rib, lock_items, seqVars, concVars>>

\* Line 243: self.lock_items[lock] = RLock().
GetLockCreate(w) ==
    /\ wk[w].pc = "create"
    /\ lock_items' = [lock_items EXCEPT ![LockOf(wk[w].call)] = RLock(w, LockOf(wk[w].call))]
    /\ wk' = [wk EXCEPT ![w].pc = "fetch"]
    /\ UNCHANGED <<rib, seqVars, concVars>>

\* Line 244: return self.lock_items[lock].
GetLockFetch(w) ==
    /\ wk[w].pc = "fetch"
    /\ wk' = [wk EXCEPT ![w].pc = "acquire", ![w].lk = lock_items[LockOf(wk[w].call)]]
    /\ UNCHANGED <<rib, lock_items, seqVars, concVars>>

\* A worker holds lock object lk: it is between the with statement's acquire
\* and its release.
Holds(w, lk) == wk[w].lk = lk /\ wk[w].pc \in {"table", "commit"}

\* The with statement acquires the lock object: it waits while another worker
\* holds that object.
Acquire(w) ==
    /\ wk[w].pc = "acquire"
    /\ \A v \in Workers \ {w} : ~Holds(v, wk[w].lk)
    /\ wk' = [wk EXCEPT ![w].pc = "table"]
    /\ UNCHANGED <<rib, lock_items, seqVars, concVars>>

\* self.rib.add / get / delete; the with statement releases the lock after the
\* last statement of its body.
Table(w) ==
    /\ wk[w].pc = "table"
    /\ rib' = TableOp(rib, wk[w].call)
    /\ wk' = [wk EXCEPT ![w] =
                IF Commits(@.call) THEN Worker("commit", @.call, @.lk) ELSE IdleWorker]
    /\ UNCHANGED <<lock_items, seqVars, concVars>>

\* Commit, were the accessor to wait, before it releases its lock, until no
\* other worker is waiting for a lock.
Commit_HoldAndWait(w) ==
    /\ wk[w].pc = "commit"
    /\ \A v \in Workers \ {w} : wk[v].pc # "acquire"
    /\ wk' = [wk EXCEPT ![w] = IdleWorker]
    /\ UNCHANGED <<rib, lock_items, seqVars, concVars>>

\* self.rib.commit(), and the release.
Commit(w) ==
    /\ wk[w].pc = "commit"
    /\ wk' = [wk EXCEPT ![w] = IdleWorker]
    /\ UNCHANGED <<rib, lock_items, seqVars, concVars>>

NextLock ==
    \E w \in Workers :
        \/ CallAccessor(w)
        \/ GetLockCheck(w) \/ GetLockCreate(w) \/ GetLockFetch(w)
        \/ Acquire(w) \/ Table(w) \/ Commit(w)

SpecLock == Init /\ [][NextLock]_vars

\* The steps of a worker inside an accessor.
InAccessor(w) ==
    \/ GetLockCheck(w) \/ GetLockCreate(w) \/ GetLockFetch(w)
    \/ Acquire(w) \/ Table(w) \/ Commit(w)

\* Fair scheduling: a worker inside an accessor that can take its next step
\* takes it, and a worker waiting for a lock that is free again and again gets
\* it.
SpecLockFair ==
    /\ SpecLock
    /\ \A w \in Workers : WF_vars(InAccessor(w)) /\ SF_vars(Acquire(w))

\* ================================================================== claims
\* r is the maximum of the set S of routes in the Route total order.
IsMax(r, S) == r \in S /\ \A q \in S : q = r \/ RouteGt(r, q)

\* The best route a prefix should have given its input rows: their maximum, or
\* none when there are no rows.
IsElected(r, S) == IF S = {} THEN r = None ELSE IsMax(r, S)

\* decision_process run on every change of a list, in order.
RECURSIVE DecideAll(_, _)
DecideAll(t, changes) ==
    IF changes = << >> THEN t
    ELSE DecideAll(decision_process(t, Head(changes)).rib, Tail(changes))

\* The elements of a sequence.
Elems(seq) == { seq[i] : i \in 1..Len(seq) }

\* C1 (as stated): after announcements only, each from a neighbor that had not
\* announced the prefix before, and each followed by decision_process on every
\* change update() returned, local[prefix] is the maximum of the input rows of
\* the prefix.
C1_BestPathMonotonicity ==
    (annOnly /\ decided = Len(route_list)) =>
        \A p \in Prefixes :
            RibGetInputByPrefix(rib, p) # {} =>
                IsMax(rib.local[p], RibGetInputByPrefix(rib, p))

C3_NonImpactingWithdrawal ==
    \A upd \in RouteChanges :
        ( /\ upd.tag = "withdraw"
          /\ rib.local[upd.route.prefix] # None
          /\ rib.local[upd.route.prefix].neighbor # upd.route.neighbor )
        => LET d == decision_process(rib, upd)
           IN  d.rib.local = rib.local /\ ~d.raised

\* C3's case: decision_process has just handled a withdraw change for a prefix
\* that had a best route of another neighbor.
C3_Witness ==
    /\ last.op = "decision_process" /\ last.tag = "withdraw"
    /\ last.had /\ ~last.hit /\ ~last.raised
    /\ \E p \in Prefixes : rib.local[p] # None

\* C4: in every reachable state, for a withdrawal event and each of its
\* prefixes without an input row of the neighbor, update() returns no change
\* for that prefix and leaves the prefix's rows in input, local and output as
\* they were; it returns exactly one change per withdrawn prefix that had a
\* row, and when no withdrawn prefix had one the three tables are unchanged
\* and the returned list is empty.
C4_IdempotentWithdrawal ==
    \A ev \in WithdrawEvents, order \in Orders(Prefixes) :
        LET u == update(rib, ev, order)
            present == { p \in ev.prefixes : RibGetInput(rib, p, ev.neighbor) # None }
        IN  /\ Len(u.route_list) = Cardinality(present)
            /\ \A p \in ev.prefixes \ present :
                  /\ \A c \in Elems(u.route_list) : c.route.prefix # p
                  /\ \A n \in Neighbors : u.rib.input[<<p, n>>] = rib.input[<<p, n>>]
                  /\ u.rib.local[p] = rib.local[p]
                  /\ u.rib.output[p] = rib.output[p]
            /\ present = {} => (u.rib = rib /\ u.route_list = << >>)

\* C4's case: update() has just handled a withdrawal of pairs that had no input
\* row, with rows of other pairs in the tables, and returned nothing.
C4_Witness ==
    /\ last.op = "update" /\ last.tag = "withdraw" /\ last.n = 0
    /\ last.had /\ rib # EmptyRib

\* C5: in every reachable state, update() with a neighbor-down event for
\* neighbor N leaves input, local and output empty and returns exactly one
\* withdraw change per input row N held, carrying that row, and nothing else.
C5_PeerDownClearsEverything ==
    \A ev \in DownEvents, order \in Orders(Prefixes) :
        LET u == update(rib, ev, order)
            held == RibGetInputByNeighbor(rib, ev.neighbor)
        IN  /\ u.rib = EmptyRib
            /\ Len(u.route_list) = Cardinality(held)
            /\ Elems(u.route_list) = { WithdrawChange(r) : r \in held }

\* C5's case: update() has just handled a neighbor-down event while the
\* neighbor held rows and other neighbors (or local, or output) held rows too;
\* the tables are empty.
C5_Witness ==
    /\ last.op = "update" /\ last.tag = "down"
    /\ last.n >= 1 /\ last.hit
    /\ rib = EmptyRib

\* The changes of a batch that the loop of bgp_update_peers reaches: those
\* before the first one that raises.
Raises(t, upd) ==
    upd.obj # "route" \/ (upd.tag = "announce" /\ t.local[upd.route.prefix] = None)

Reached(t, updates, i) == \A j \in 1..(i - 1) : ~Raises(t, updates[j])

\* How many elements of a sequence satisfy the test.
Count(seq, Test(_)) == Cardinality({ i \in 1..Len(seq) : Test(seq[i]) })

\* The step is a call of bgp_update_peers with these arguments.
IsPropagation(updates, VNH_2_vmac, ports) ==
    LET b == bgp_update_peers(rib, updates, VNH_2_vmac, ports)
    IN  /\ last'.op = "bgp_update_peers"
        /\ rib' = b.rib
        /\ last'.raised = b.raised
        /\ last'.n = Len(b.announcements)
        /\ last'.hit = AnnounceWithoutBest(rib, updates)
        /\ last'.had = SomeWithBest(rib, updates)

\* C9 (as stated): a bgp_update_peers call that comes to an announce change for
\* a prefix without a best route returns normally, with no action for that
\* prefix unless another change of the batch is for it, with output[prefix] as
\* it was, and with the actions of the other changes.
C9_PropagationNeverAborts ==
    [][ \A updates \in Batches, VNH_2_vmac \in VmacChoices, ports \in PortLists :
          IsPropagation(updates, VNH_2_vmac, ports) =>
            LET b == bgp_update_peers(rib, updates, VNH_2_vmac, ports)
            IN  \A i \in 1..Len(updates) :
                  ( /\ updates[i].tag = "announce" /\ updates[i].obj = "route"
                    /\ rib.local[updates[i].route.prefix] = None
                    /\ Reached(rib, updates, i) )
                  => /\ ~b.raised
                     /\ b.rib.output[updates[i].route.prefix]
                          = rib.output[updates[i].route.prefix]
                     /\ \A j \in 1..Len(updates) :
                          HasBest(rib, updates[j]) =>
                            Count(b.announcements,
                                  LAMBDA a : a.prefix = updates[j].route.prefix) >= 1
      ]_vars

\* C10 (as stated): for every change of a batch whose prefix has a best route
\* when the change is processed, bgp_update_peers sets output[prefix] to that
\* route and returns one announce action per port of its ports argument for the
\* change, carrying the prefix, its VNH and the best route's AS-path, and no
\* withdraw action for the prefix.
C10_PropagationWithBest ==
    [][ \A updates \in Batches, VNH_2_vmac \in VmacChoices, ports \in PortLists :
          IsPropagation(updates, VNH_2_vmac, ports) =>
            LET b == bgp_update_peers(rib, updates, VNH_2_vmac, ports)
            IN  \A i \in 1..Len(updates) :
                  ( /\ Reached(rib, updates, i)
                    /\ HasBest(rib, updates[i]) )
                  => LET p == updates[i].route.prefix
                         same == Count(updates,
                                       LAMBDA c : c.obj = "route" /\ c.route.prefix = p)
                     IN  /\ b.rib.output[p] = rib.local[p]
                         /\ \A k \in 1..Len(ports) :
                              Count(b.announcements,
                                    LAMBDA a : a = announce_route(ports[k], p,
                                                       prefix_2_FEC(p).vnh,
                                                       rib.local[p].as_path)) >= 1
                         /\ Count(b.announcements,
                                  LAMBDA a : a.cmd = "announce" /\ a.prefix = p)
                              <= same * Len(ports)
                         /\ Count(b.announcements,
                                  LAMBDA a : a.cmd = "withdraw" /\ a.prefix = p) = 0
      ]_vars

\* update() on the event of a task followed by decision_process on every change
\* it returned, with nothing else running in between.
TaskRun(t, task) ==
    LET u == update(t, task.ev, CHOOSE order \in Orders(Prefixes) : TRUE)
    IN  DecideAll(u.rib, u.route_list)

\* The tasks of the given workers run one at a time, in the given order.
RECURSIVE RunInOrder(_, _)
RunInOrder(t, ws) ==
    IF ws = << >> THEN t
    ELSE RunInOrder(IF round.task[Head(ws)] = NoTask THEN t
                    ELSE TaskRun(t, round.task[Head(ws)]),
                    Tail(ws))

\* The workers now finished all ran update() + decision_process() for a
\* withdrawal of prefix 1: change events whose changes decision_process reads
\* without raising.
WithdrawalRound ==
    /\ RoundOver
    /\ \A w \in Workers :
         \/ round.task[w] = NoTask
         \/ /\ round.task[w].kind = "event"
            /\ round.task[w].ev.state = "up"
            /\ round.task[w].ev.kind = "withdraw"

\* local[1] is what the tasks of the round, run one at a time in some order from
\* the tables the first of them found, leave in local[1].
Serializable ==
    \E ws \in Orders(Workers) :
        RibGet(rib, "local", 1) = RibGet(RunInOrder(round.start, ws), "local", 1)

\* C6 (as stated, for withdrawals): when the workers have run update() +
\* decision_process() for withdrawals of prefix 1 concurrently and all have
\* finished, local[1] is what running the same events one at a time leaves in
\* local[1] for some order of the events.
C6_PerPrefixSerializability == WithdrawalRound => Serializable

\* A worker is at a table: between entering the body of its accessor and the
\* end of that body.
AtTable(w) == wk[w].pc \in {"table", "commit"}

\* A worker is at a table under a lock it got from get_lock for the given name.
Locked(w, name) ==
    /\ AtTable(w)
    /\ wk[w].lk # NoLock
    /\ wk[w].lk[2] = name

\* C7 (as stated): a worker at a table holds a lock of the registry, the one
\* named by the prefix of its operation or, with no prefix (the bulk delete-all
\* included), 'global'; and no worker is in a bulk delete-all while another is
\* in a locked table operation.
C7_LockingDiscipline ==
    /\ \A w \in Workers : AtTable(w) => Locked(w, LockOf(wk[w].call))
    /\ \A w, v \in Workers :
         (AtTable(w) /\ wk[w].call.op = "delete_all_routes") =>
             ~(v # w /\ AtTable(v) /\ wk[v].call.op # "delete_all_routes")

\* C8 (as stated): the workers that get_lock has returned a lock to for one
\* name all have the same lock object, and no two workers are at a table under
\* locks of the same name.
C8_SafeLazyLockInsertion ==
    \A w, v \in Workers :
        (w # v /\ wk[w].call.op \notin {"none", "delete_all_routes"}
               /\ wk[v].call.op \notin {"none", "delete_all_routes"}
               /\ LockOf(wk[w].call) = LockOf(wk[v].call)) =>
            /\ (wk[w].lk # NoLock /\ wk[v].lk # NoLock) => wk[w].lk = wk[v].lk
            /\ ~(AtTable(w) /\ AtTable(v))

\* The changes of the batch that concern the prefix.
ChangesFor(updates, p) ==
    Count(updates, LAMBDA c : c.obj = "route" /\ c.route.prefix = p)

\* C11 (as stated): a bgp_update_peers call that does not raise and whose batch
\* has one change for a prefix, a withdraw change, while the prefix has no best
\* route: when output[prefix] existed it is deleted and the call returns exactly
\* one withdraw action for the prefix per port of its ports argument; when it
\* did not exist the call returns no action for the prefix and leaves
\* output[prefix] absent.
C11_WithdrawWithoutSurvivor ==
    [][ \A updates \in Batches, VNH_2_vmac \in VmacChoices, ports \in PortLists :
          IsPropagation(updates, VNH_2_vmac, ports) =>
            LET b == bgp_update_peers(rib, updates, VNH_2_vmac, ports)
            IN  \A i \in 1..Len(updates) :
                  ( /\ ~b.raised
                    /\ updates[i].tag = "withdraw" /\ updates[i].obj = "route"
                    /\ ChangesFor(updates, updates[i].route.prefix) = 1
                    /\ rib.local[updates[i].route.prefix] = None )
                  => LET p == updates[i].route.prefix
                     IN  /\ b.rib.output[p] = None
                         /\ Count(b.announcements,
                                  LAMBDA a : a.cmd = "announce" /\ a.prefix = p) = 0
                         /\ IF rib.output[p] # None
                            THEN /\ \A k \in 1..Len(ports) :
                                      Count(b.announcements,
                                            LAMBDA a : a = withdraw_route(ports[k], p,
                                                             prefix_2_VNH_nrfp(p))) = 1
                                 /\ Count(b.announcements,
                                          LAMBDA a : a.cmd = "withdraw" /\ a.prefix = p)
                                      = Len(ports)
                            ELSE Count(b.announcements, LAMBDA a : a.prefix = p) = 0
      ]_vars

\* The step is a call of update() with this event, the store listing its rows
\* and keys in this order.
IsUpdate(ev, order) ==
    /\ last'.op = "update"
    /\ rib' = update(rib, ev, order).rib
    /\ route_list' = update(rib, ev, order).route_list

\* C12 (as stated): update() on an announcement of neighbor N writes, for every
\* announced prefix, the constructed route into input under (prefix, N), and
\* returns exactly one announce change for the prefix, whose payload is that
\* route.
C12_AnnouncementTranslation ==
    [][ \A ev \in AnnounceEvents, order \in Orders(Prefixes) :
          IsUpdate(ev, order) =>
            \A p \in ev.prefixes :
              LET announced_route == BGPRoute(p, ev.neighbor, ev.as_path)
              IN  /\ RibGetInput(rib', p, ev.neighbor) = announced_route
                  /\ Count(route_list',
                           LAMBDA c : c = Change("announce", "route", announced_route)) = 1
                  /\ Len(route_list') = Cardinality(ev.prefixes)
      ]_vars

\* The task is a clear-all: a shutdown notification or a neighbor-down event.
ClearTask(task) ==
    \/ task.kind = "notify"
    \/ task.kind = "event" /\ task.ev.state = "down"

\* C13 (as stated): once the clear-all of a worker has finished and left the
\* tables empty, a worker that is still running update() + decision_process()
\* for an event does not write a route into local: its change was made from
\* rows that the clear-all has deleted.
C13_CancellationOfStaleWork ==
    [][ \A v, w \in Workers :
          ( /\ v # w
            /\ th[v].pc = "done" /\ ClearTask(round.task[v])
            /\ rib = EmptyRib
            /\ round.task[w].kind = "event"
            /\ th'[w] # th[w] )
          => rib'.local = rib.local
      ]_vars

\* C14 (as stated): a call of decision_process that puts a route into
\* local[prefix] puts there a route that is, after the call, a row of the input
\* table for the prefix.
C14_LocalDrawnFromInput ==
    [][ last'.op = "decision_process" =>
          \A p \in Prefixes :
            (rib'.local[p] # rib.local[p] /\ rib'.local[p] # None)
            => rib'.local[p] \in RibGetInputByPrefix(rib', p)
      ]_vars

\* C15 (as stated): in every reachable state, when the neighbor of local[prefix]
\* announces the prefix again with a route that ranks strictly below
\* local[prefix], update() followed by decision_process on every change it
\* returned leaves local[prefix] equal to the maximum of the input rows of the
\* prefix.
C15_SameNeighborDegradation ==
    \A ev \in AnnounceEvents, order \in Orders(Prefixes) :
        \A p \in ev.prefixes :
            ( /\ rib.local[p] # None
              /\ rib.local[p].neighbor = ev.neighbor
              /\ RouteLt(BGPRoute(p, ev.neighbor, ev.as_path), rib.local[p]) )
            => LET u == update(rib, ev, order)
                   t == DecideAll(u.rib, u.route_list)
               IN  IsMax(t.local[p], RibGetInputByPrefix(t, p))

\* An announce change whose route is of another neighbor than local[prefix] and
\* ranks below it.
WorseFromOther(t, upd) ==
    /\ upd.tag = "announce" /\ upd.obj = "route"
    /\ t.local[upd.route.prefix] # None
    /\ t.local[upd.route.prefix].neighbor # upd.route.neighbor
    /\ RouteLt(upd.route, t.local[upd.route.prefix])

\* The worker has run decision_process on a change of its caller's to the end
\* with no other worker at work.
DecidedAlone(w) ==
    /\ th[w].pc = "done"
    /\ round.task[w].kind = "decide"
    /\ \A v \in Workers \ {w} : round.task[v] = NoTask

\* C16: in every reachable state, decision_process on an announce change whose
\* route is of another neighbor than local[prefix] and ranks below it leaves
\* the three tables as they were and does not raise; and a worker that has run
\* it on such a change, alone, has left the tables as it found them.
C16_WorseFromNonBestNeighbor ==
    /\ \A upd \in RouteChanges :
         WorseFromOther(rib, upd) =>
           LET d == decision_process(rib, upd)
           IN  d.rib = rib /\ ~d.raised
    /\ \A w \in Workers :
         (DecidedAlone(w) /\ WorseFromOther(round.start, round.task[w].upd))
         => rib = round.start

\* C16's case: a worker has just run decision_process, alone, on an announce
\* change of another neighbor than the best route's, ranking below it.
C16_Witness ==
    \E w \in Workers :
        /\ DecidedAlone(w)
        /\ WorseFromOther(round.start, round.task[w].upd)
        /\ WorseFromOther(rib, round.task[w].upd)

\* C17 (as stated): the new-FEC list a bgp_update_peers call returns holds each
\* forwarding class at most once, and holds only classes of prefixes that the
\* call returned an announce action for.
C17_NewFECsDeduplicated ==
    [][ \A updates \in Batches, VNH_2_vmac \in VmacChoices, ports \in PortLists :
          IsPropagation(updates, VNH_2_vmac, ports) =>
            LET b == bgp_update_peers(rib, updates, VNH_2_vmac, ports)
            IN  /\ \A i, j \in 1..Len(b.new_FECs) :
                      b.new_FECs[i] = b.new_FECs[j] => i = j
                /\ \A i \in 1..Len(b.new_FECs) :
                      \E p \in Prefixes :
                          /\ prefix_2_FEC(p) = b.new_FECs[i]
                          /\ Count(b.announcements,
                                   LAMBDA a : a.cmd = "announce" /\ a.prefix = p) >= 1
      ]_vars

\* The worker is inside decision_process for an announce change of the prefix,
\* between its read of local and its write of local.
DecisionPending(v, p) ==
    /\ th[v].pc = "d_write"
    /\ th[v].upd.tag = "announce"
    /\ th[v].upd.route.prefix = p

\* C18: a worker in bgp_update_peers on an announce change that found no best
\* route on its first read and makes its retry read while another worker is
\* inside decision_process for the prefix and has not yet written local finds
\* no best route again: the call ends for that change with no action, and the
\* decision's write is still to come.
C18_DecisionPropagationRace ==
    [][ \A w, v \in Workers :
          ( /\ w # v
            /\ th[w].pc = "p_retry" /\ th[w].upd.tag = "announce"
            /\ th'[w] # th[w]
            /\ DecisionPending(v, th[w].upd.route.prefix)
            /\ rib.local[th[w].upd.route.prefix] = None )
          => /\ th'[w].pc = "done"
             /\ th'[w].found = None
             /\ th'[w].out.announcements = << >>
             /\ th'[v] = th[v]
             /\ rib' = rib
      ]_vars

\* C18's case: a worker has ended bgp_update_peers on an announce change having
\* read local[prefix] as absent twice, while another worker is inside
\* decision_process for that prefix with its write of local still to come.
C18_Witness ==
    \E w, v \in Workers :
        /\ w # v
        /\ th[w].pc = "done"
        /\ th[w].task.kind = "propagate"
        /\ th[w].upd.tag = "announce" /\ th[w].upd.obj = "route"
        /\ th[w].found = None
        /\ DecisionPending(v, th[w].upd.route.prefix)
        /\ th[v].found # None
        /\ rib.local[th[w].upd.route.prefix] = None

EventPass(t, ev, order, VNH_2_vmac, ports) ==
    LET u == update(t, ev, order)
    IN  bgp_update_peers(DecideAll(u.rib, u.route_list), u.route_list, VNH_2_vmac, ports)

\* C20 (as stated): in every reachable state, for a prefix that has a best route
\* and an output row (a propagation pass has announced it), and a withdrawal
\* or neighbor-down event after which decision_process leaves the prefix
\* without a best route, the propagation pass on the changes of the event
\* returns a withdraw action for the prefix for every port it is given.
C20_DownstreamWithdrawalNeverLost ==
    \A ev \in WithdrawEvents \cup DownEvents, order \in Orders(Prefixes),
       VNH_2_vmac \in VmacChoices, ports \in PortLists :
        \A p \in Prefixes :
            LET u == update(rib, ev, order)
                t == DecideAll(u.rib, u.route_list)
                b == EventPass(rib, ev, order, VNH_2_vmac, ports)
            IN  ( /\ rib.output[p] # None
                  /\ rib.local[p] # None
                  /\ t.local[p] = None )
                => \A k \in 1..Len(ports) :
                     Count(b.announcements,
                           LAMBDA a : a = withdraw_route(ports[k], p,
                                                         prefix_2_VNH_nrfp(p))) >= 1

====
